---- MODULE Spec2Model ----
(***************************************************************************)
(* Model of AutomaticCircuit.py: the SpheroRacer object (discovery,        *)
(* connection, calibration, the segment sequencer run_race, emergency_stop *)
(* and cleanup), the function main and the command-line entry point.       *)
(*                                                                         *)
(* The vendor API (spherov2) is the environment: every command sent to it  *)
(* either succeeds or raises an exception; the operator either confirms a  *)
(* prompt, closes the input (EOFError) or presses Ctrl-C                   *)
(* (KeyboardInterrupt, which no "except Exception" clause catches).        *)
(* Every command handed to the API is appended to the history variable     *)
(* log, every return of a SpheroRacer method to the history variable rets. *)
(***************************************************************************)
EXTENDS Integers, Sequences, FiniteSets, TLC

\* ---------------------------------------------------------------- bounds
\* Device commands that may raise in one execution.
MaxFailures == 2
\* Calls of calibrate_heading / run_race made by a client of the object.
MaxCalls == 3

\* ------------------------------------------------------ program constants
STRAIGHT_SPEED == 80
TURN_SPEED == 40
\* start_time = None
NoTime == -1
\* len(sys.argv) < 4 prints the usage line
MinArgc == 4
\* COURSE_WIDTH, COURSE_HEIGHT (cm)
COURSE_WIDTH == 500
COURSE_HEIGHT == 300
\* The clock counts ticks of 1/960 s: every argument the program passes to
\* time.sleep (0.1, 0.2, 0.5, 1, distance / 24, distance / 64 seconds, the
\* distance a whole number of cm) is a whole number of ticks.
TicksPerSecond == 960

\* The course built by SpheroRacer.__init__ (x, y in cm, heading in degrees).
BuiltinWaypoints ==
  << <<200, 250, 0>>,   <<450, 250, 0>>,   <<450, 250, 90>>,  <<450, 50, 90>>,
     <<450, 50, 180>>,  <<350, 50, 180>>,  <<350, 50, 270>>,  <<350, 150, 270>>,
     <<350, 150, 180>>, <<150, 150, 180>>, <<150, 150, 90>>,  <<150, 50, 90>>,
     <<150, 50, 180>>,  <<50, 50, 180>>,   <<50, 50, 270>>,   <<50, 250, 270>>,
     <<50, 250, 0>>,    <<250, 250, 0>> >>

\* Courses a client of the object assigns to racer.waypoints before it calls
\* the methods: straight / turn in place / straight, and turn / turn in place.
ClientCourses ==
  { << <<0, 0, 0>>, <<100, 0, 0>>, <<100, 0, 90>>, <<100, 80, 90>> >>,
    << <<50, 0, 180>>, <<150, 0, 270>>, <<150, 0, 0>> >> }

\* One-segment courses for the segment planner: every combination of a
\* distance of 0, 1 and 100 cm with a heading change of 0, 45 and 46 degrees
\* from (0, 0, 0), and of -45, -46 and 90 degrees from (50, 0, 180).
PlanCourses ==
  { << <<0, 0, 0>>, <<x, 0, h>> >> : x \in {0, 1, 100}, h \in {0, 45, 46} }
    \cup
  { << <<50, 0, 180>>, <<x, 0, h>> >> : x \in {50, 51, 150}, h \in {135, 134, 270} }

\* ------------------------------------------------------- pure functions
Abs(n) == IF n < 0 THEN -n ELSE n

\* calculate_distance(start_pos, end_pos): math.sqrt(dx*dx + dy*dy), as the
\* integer root, which is exact for every segment of the courses above (they
\* are axis-parallel).
calculate_distance(a, b) ==
  LET dx == b[1] - a[1]
      dy == b[2] - a[2]
      s  == Abs(dx) + Abs(dy)
  IN  CHOOSE r \in 0..s : r * r <= dx * dx + dy * dy /\ dx * dx + dy * dy < (r + 1) * (r + 1)

\* Mutant of IsTurnInPlace: the comparison is "distance <= 1".
IsTurnInPlace_Inclusive(a, b) == calculate_distance(a, b) <= 1

\* execute_segment: "if distance < 1" chooses the turn-in-place branch
IsTurnInPlace(a, b) == calculate_distance(a, b) < 1

\* Mutant of SegmentSpeed: the two speeds are exchanged.
SegmentSpeed_Swapped(a, b) ==
  IF Abs(b[3] - a[3]) > 45 THEN STRAIGHT_SPEED ELSE TURN_SPEED

\* execute_segment: the speed of a regular movement segment
SegmentSpeed(a, b) == IF Abs(b[3] - a[3]) > 45 THEN TURN_SPEED ELSE STRAIGHT_SPEED

\* num / den seconds, in ticks
Secs(num, den) == (TicksPerSecond * num) \div den

\* execute_segment, lines 172 and 175: the factor (in tenths) that derates
\* the speed, 0.6 for a turn segment and 0.8 for a straight one
Derating(a, b) == IF Abs(b[3] - a[3]) > 45 THEN 6 ELSE 8

\* Mutant of HoldDuration: the duration is distance / speed, not derated.
HoldDuration_NoDerating(a, b) ==
  IF IsTurnInPlace(a, b) THEN Secs(5, 10)
  ELSE Secs(calculate_distance(a, b), SegmentSpeed(a, b))

\* execute_segment, lines 166, 172, 175: the time the segment is held,
\* 0.5 s for a turn in place, else distance / (speed * factor)
HoldDuration(a, b) ==
  IF IsTurnInPlace(a, b) THEN Secs(5, 10)
  ELSE Secs(calculate_distance(a, b) * 10, SegmentSpeed(a, b) * Derating(a, b))

VARIABLES
  driver,          \* "cli": the script run from the shell; "main": main(None)
                   \* called directly; "client": code that uses a SpheroRacer
  argc,            \* len(sys.argv)
  toy_name,        \* TRUE when main's toy_name is not None
  waypoints,       \* self.waypoints
  toy,             \* self.toy is not None
  api,             \* self.api is not None
  calibrated,      \* self.calibrated
  start_time,      \* self.start_time (NoTime for None)
  total_distance,  \* self.total_distance
  clock,           \* time.time(), in ticks
  pc,              \* the statement control is at
  i,               \* run_race's loop index: the segments the call has completed
  estop_ret,       \* who called emergency_stop: "run_race", "main_kbd", "main_exc"
  main_ret,        \* main's return value: "none", "true", "false"
  exit_code,       \* the process's exit code, -1 while it runs
  log,             \* history: the commands handed to the API, in order: the
                   \* command, its argument, whether it succeeded, the segment
                   \* and the run_race call it belongs to (else 0), the method
                   \* that issued it, the time
  rets,            \* history: the returns of SpheroRacer's methods, in order:
                   \* the method, its value, the run_race call it ends (else
                   \* 0), the segments that call completed, total_distance
  failures,        \* commands that raised so far
  calls,           \* client calls made so far
  runs,            \* run_race calls that passed the calibration check
  inrun,           \* the number of the run_race call control is inside, else 0
  interrupted,     \* history: a KeyboardInterrupt was delivered
  intr_at,         \* history: Len(log) when it was delivered
  intr_pc,         \* history: pc when it was delivered
  results,         \* history: the race results computed (lines 230-231), in
                   \* order: the run, race_time, total_distance, avg_speed as
                   \* the fraction avg_num / avg_den cm/s
  confirm_at       \* history: Len(log) when calibrate_heading's input()
                   \* last returned, -1 before

vars == << driver, argc, toy_name, waypoints, toy, api, calibrated, start_time,
           total_distance, clock, pc, i, estop_ret, main_ret, exit_code, log,
           rets, failures, calls, runs, inrun, interrupted, intr_at, intr_pc,
           results, confirm_at >>

envVars  == << driver, argc, toy_name, waypoints >>
intrVars == << interrupted, intr_at, intr_pc >>
obsVars  == << results, confirm_at >>

\* The state after construction, a client choosing its course among courses.
InitWith(courses) ==
  /\ driver \in {"cli", "main", "client"}
  /\ argc \in (IF driver = "cli" THEN {MinArgc - 1, MinArgc} ELSE {0})
  /\ toy_name = (driver # "main")
  /\ waypoints \in (IF driver = "client" THEN courses ELSE {BuiltinWaypoints})
  /\ toy = FALSE
  /\ api = FALSE
  /\ calibrated = FALSE
  /\ start_time = NoTime
  /\ total_distance = 0
  /\ clock = 0
  /\ pc = (IF driver = "cli" THEN "cli_start"
           ELSE IF driver = "main" THEN "main_entry" ELSE "discover")
  /\ i = 0
  /\ estop_ret = "none"
  /\ main_ret = "none"
  /\ exit_code = -1
  /\ log = << >>
  /\ rets = << >>
  /\ failures = 0
  /\ calls = 0
  /\ runs = 0
  /\ inrun = 0
  /\ interrupted = FALSE
  /\ intr_at = 0
  /\ intr_pc = "none"
  /\ results = << >>
  /\ confirm_at = -1

Init == InitWith(ClientCourses)

\* The same program, the client running the one-segment courses.
InitPlan == InitWith(PlanCourses)

\* ------------------------------------------------------------ control flow
\* Mutant of MainNext: a failed connect_toy returns from main without the
\* finally clause running cleanup.
MainNext_ConnectFailureSkipsCleanup(op, val) ==
  IF op = "discover_toy" THEN (IF val THEN "connect" ELSE "cleanup_stop")
  ELSE IF op = "connect_toy" THEN (IF val THEN "cal_led" ELSE "main_done")
  ELSE IF op = "calibrate_heading" THEN (IF val THEN "main_input" ELSE "cleanup_stop")
  ELSE "cleanup_stop"

\* Mutant of MainNext: main does not look at what connect_toy returned.
MainNext_IgnoresConnectResult(op, val) ==
  IF op = "discover_toy" THEN (IF val THEN "connect" ELSE "cleanup_stop")
  ELSE IF op = "connect_toy" THEN "cal_led"
  ELSE IF op = "calibrate_heading" THEN (IF val THEN "main_input" ELSE "cleanup_stop")
  ELSE "cleanup_stop"

\* main, lines 284-311: where main goes when a method returns val.
MainNext(op, val) ==
  IF op = "discover_toy" THEN (IF val THEN "connect" ELSE "cleanup_stop")
  ELSE IF op = "connect_toy" THEN (IF val THEN "cal_led" ELSE "cleanup_stop")
  ELSE IF op = "calibrate_heading" THEN (IF val THEN "main_input" ELSE "cleanup_stop")
  ELSE "cleanup_stop"

\* A client connects first and then calls the methods it likes.
ClientNext(op) == IF op = "discover_toy" THEN "connect" ELSE "client_idle"

\* Control moves on inside the current function.
Goto(l) ==
  /\ pc' = l
  /\ UNCHANGED << rets, main_ret, inrun >>

\* The method op returns val to its caller.  main returns (through its
\* finally clause) as soon as a step fails, and returns run_race's result.
Return(op, val) ==
  /\ rets' = Append(rets, [op |-> op, val |-> val, run |-> inrun,
                           segs |-> IF inrun > 0 THEN i ELSE 0,
                           dist |-> total_distance])
  /\ inrun' = 0
  /\ IF driver = "client"
       THEN /\ pc' = ClientNext(op)
            /\ main_ret' = main_ret
       ELSE /\ pc' = MainNext(op, val)
            /\ main_ret' = IF MainNext(op, val) = "cleanup_stop"
                             THEN (IF val THEN "true" ELSE "false")
                             ELSE main_ret

\* ------------------------------------------------------------- the device
\* What a call self.api.<command>(...) can do: raise AttributeError when api
\* is None, else succeed or raise.
DevOutcomes ==
  IF ~api THEN {"noapi"}
  ELSE IF failures < MaxFailures THEN {"ok", "fail"} ELSE {"ok"}

Cmd(cmd, arg, color, ok, seg, src) ==
  [cmd |-> cmd, arg |-> arg, color |-> color, ok |-> ok, seg |-> seg,
   run |-> inrun, src |-> src, at |-> clock]

Dev(o, cmd, arg, color, seg, src) ==
  /\ log' = IF o = "noapi" THEN log
            ELSE Append(log, Cmd(cmd, arg, color, o = "ok", seg, src))
  /\ failures' = IF o = "fail" THEN failures + 1 ELSE failures

\* ------------------------------------------------- the command-line entry
\* __main__: fewer than 4 arguments print the usage and sys.exit(1);
\* otherwise main(toy_name, joystick, playerid) is called.
CliStart ==
  /\ pc = "cli_start"
  /\ IF argc < MinArgc
       THEN pc' = "exited" /\ exit_code' = 1
       ELSE pc' = "main_entry" /\ exit_code' = exit_code
  /\ UNCHANGED << envVars, intrVars, obsVars, toy, api, calibrated, start_time,
                  total_distance, clock, i, estop_ret, main_ret, log, rets,
                  failures, calls, runs, inrun >>

\* main, lines 270-280: no toy name returns False before the try statement;
\* otherwise the racer is constructed and the try body is entered.
MainEntry ==
  /\ pc = "main_entry"
  /\ IF toy_name
       THEN pc' = "discover" /\ main_ret' = main_ret
       ELSE pc' = "main_done" /\ main_ret' = "false"
  /\ UNCHANGED << envVars, intrVars, obsVars, toy, api, calibrated, start_time,
                  total_distance, clock, i, estop_ret, exit_code, log, rets,
                  failures, calls, runs, inrun >>

\* The statement after main(...) in __main__: the script ends, and the
\* interpreter exits with code 0 whatever main returned.
ScriptEnd ==
  /\ pc = "main_done"
  /\ driver = "cli"
  /\ pc' = "exited"
  /\ exit_code' = 0
  /\ UNCHANGED << envVars, intrVars, obsVars, toy, api, calibrated, start_time,
                  total_distance, clock, i, estop_ret, main_ret, log, rets,
                  failures, calls, runs, inrun >>

\* ------------------------------------------------- discovery, connection
\* discover_toy: scanner.find_toy finds the toy or raises.
DiscoverToy ==
  /\ pc = "discover"
  /\ \E found \in BOOLEAN :
       /\ toy' = (toy \/ found)
       /\ Return("discover_toy", found)
  /\ UNCHANGED << envVars, intrVars, obsVars, api, calibrated, start_time,
                  total_distance, clock, i, estop_ret, exit_code, log,
                  failures, calls, runs >>

\* connect_toy, lines 86-88 and 97-99: without a toy it returns False; else
\* SpheroEduAPI(self.toy) opens the session or raises.
ConnectToy ==
  /\ pc = "connect"
  /\ \E opened \in (IF toy THEN BOOLEAN ELSE {FALSE}) :
       /\ api' = (api \/ opened)
       /\ IF opened THEN Goto("connect_reset") ELSE Return("connect_toy", FALSE)
  /\ UNCHANGED << envVars, intrVars, obsVars, toy, calibrated, start_time,
                  total_distance, clock, i, estop_ret, exit_code, log,
                  failures, calls, runs >>

\* connect_toy, line 90: self.api.reset_aim()
ConnectReset ==
  /\ pc = "connect_reset"
  /\ \E o \in DevOutcomes :
       /\ Dev(o, "reset_aim", 0, "", 0, "connect_toy")
       /\ IF o = "ok" THEN Goto("connect_led") ELSE Return("connect_toy", FALSE)
  /\ UNCHANGED << envVars, intrVars, obsVars, toy, api, calibrated, start_time,
                  total_distance, clock, i, estop_ret, exit_code, calls, runs >>

\* connect_toy, lines 91-93: the blue LED, then return True
ConnectLed ==
  /\ pc = "connect_led"
  /\ \E o \in DevOutcomes :
       /\ Dev(o, "set_main_led", 0, "blue", 0, "connect_toy")
       /\ Return("connect_toy", o = "ok")
  /\ UNCHANGED << envVars, intrVars, obsVars, toy, api, calibrated, start_time,
                  total_distance, clock, i, estop_ret, exit_code, calls, runs >>

\* ------------------------------------------------------------ calibration
\* A calibrate_heading that drops the flag on entry, before its first command.
CalLed_ResetsFlag ==
  /\ pc = "cal_led"
  /\ calibrated' = FALSE
  /\ \E o \in DevOutcomes :
       /\ Dev(o, "set_main_led", 0, "red", 0, "calibrate_heading")
       /\ IF o = "ok" THEN Goto("cal_stop") ELSE Return("calibrate_heading", FALSE)
  /\ UNCHANGED << envVars, intrVars, obsVars, toy, api, start_time,
                  total_distance, clock, i, estop_ret, exit_code, calls, runs >>

\* calibrate_heading, line 110: the red LED
CalLed ==
  /\ pc = "cal_led"
  /\ \E o \in DevOutcomes :
       /\ Dev(o, "set_main_led", 0, "red", 0, "calibrate_heading")
       /\ IF o = "ok" THEN Goto("cal_stop") ELSE Return("calibrate_heading", FALSE)
  /\ UNCHANGED << envVars, intrVars, obsVars, toy, api, calibrated, start_time,
                  total_distance, clock, i, estop_ret, exit_code, calls, runs >>

\* calibrate_heading, line 111: set_speed(0)
CalStop ==
  /\ pc = "cal_stop"
  /\ \E o \in DevOutcomes :
       /\ Dev(o, "set_speed", 0, "", 0, "calibrate_heading")
       /\ IF o = "ok" THEN Goto("cal_input") ELSE Return("calibrate_heading", FALSE)
  /\ UNCHANGED << envVars, intrVars, obsVars, toy, api, calibrated, start_time,
                  total_distance, clock, i, estop_ret, exit_code, calls, runs >>

\* calibrate_heading, line 114: input() returns on ENTER or raises EOFError
CalInput ==
  /\ pc = "cal_input"
  /\ \E confirmed \in BOOLEAN :
       /\ confirm_at' = IF confirmed THEN Len(log) ELSE confirm_at
       /\ IF confirmed THEN Goto("cal_reset") ELSE Return("calibrate_heading", FALSE)
  /\ UNCHANGED << envVars, intrVars, results, toy, api, calibrated, start_time,
                  total_distance, clock, i, estop_ret, exit_code, log,
                  failures, calls, runs >>

\* calibrate_heading, line 117: reset_aim()
CalReset ==
  /\ pc = "cal_reset"
  /\ \E o \in DevOutcomes :
       /\ Dev(o, "reset_aim", 0, "", 0, "calibrate_heading")
       /\ IF o = "ok" THEN Goto("cal_heading") ELSE Return("calibrate_heading", FALSE)
  /\ UNCHANGED << envVars, intrVars, obsVars, toy, api, calibrated, start_time,
                  total_distance, clock, i, estop_ret, exit_code, calls, runs >>

\* A calibrate_heading that goes on to the green LED whether or not
\* set_heading(0) raised.
CalHeading_IgnoresFailure ==
  /\ pc = "cal_heading"
  /\ \E o \in DevOutcomes :
       /\ Dev(o, "set_heading", 0, "", 0, "calibrate_heading")
       /\ Goto("cal_green")
  /\ UNCHANGED << envVars, intrVars, obsVars, toy, api, calibrated, start_time,
                  total_distance, clock, i, estop_ret, exit_code, calls, runs >>

\* calibrate_heading, line 118: set_heading(0)
CalHeading ==
  /\ pc = "cal_heading"
  /\ \E o \in DevOutcomes :
       /\ Dev(o, "set_heading", 0, "", 0, "calibrate_heading")
       /\ IF o = "ok" THEN Goto("cal_green") ELSE Return("calibrate_heading", FALSE)
  /\ UNCHANGED << envVars, intrVars, obsVars, toy, api, calibrated, start_time,
                  total_distance, clock, i, estop_ret, exit_code, calls, runs >>

\* calibrate_heading, line 121: the green LED
CalGreen ==
  /\ pc = "cal_green"
  /\ \E o \in DevOutcomes :
       /\ Dev(o, "set_main_led", 0, "green", 0, "calibrate_heading")
       /\ IF o = "ok" THEN Goto("cal_sleep") ELSE Return("calibrate_heading", FALSE)
  /\ UNCHANGED << envVars, intrVars, obsVars, toy, api, calibrated, start_time,
                  total_distance, clock, i, estop_ret, exit_code, calls, runs >>

\* calibrate_heading, lines 124-126: sleep, calibrated = True, return True
CalDone ==
  /\ pc = "cal_sleep"
  /\ clock' = clock + Secs(1, 1)
  /\ calibrated' = TRUE
  /\ Return("calibrate_heading", TRUE)
  /\ UNCHANGED << envVars, intrVars, obsVars, toy, api, start_time, total_distance, i,
                  estop_ret, exit_code, log, failures, calls, runs >>

\* main, line 301: input() before the race; EOFError goes to main's
\* "except Exception" clause, which calls emergency_stop.
MainInput ==
  /\ pc = "main_input"
  /\ \E confirmed \in BOOLEAN :
       /\ pc' = IF confirmed THEN "race_check" ELSE "estop_stop"
       /\ estop_ret' = IF confirmed THEN estop_ret ELSE "main_exc"
  /\ UNCHANGED << envVars, intrVars, obsVars, toy, api, calibrated, start_time,
                  total_distance, clock, i, main_ret, exit_code, log, rets,
                  failures, calls, runs, inrun >>

\* ------------------------------------------------------------ the race
\* emergency_stop is entered, called by who.
EnterEstop(who) ==
  /\ Goto("estop_stop")
  /\ estop_ret' = who

\* Mutant of RaceRefused: run_race does not check calibrated.
RaceRefused_NoCheck == FALSE

\* run_race, line 195: the calibration check fails
RaceRefused == ~calibrated

\* run_race, lines 195-201: not calibrated returns False at once
RunRaceCheck ==
  /\ pc = "race_check"
  /\ IF RaceRefused
       THEN /\ Return("run_race", FALSE)
            /\ runs' = runs
            /\ i' = i
       ELSE /\ pc' = "race_led"
            /\ runs' = runs + 1
            /\ inrun' = runs + 1
            /\ i' = 0
            /\ UNCHANGED << rets, main_ret >>
  /\ UNCHANGED << envVars, intrVars, obsVars, toy, api, calibrated, start_time,
                  total_distance, clock, estop_ret, exit_code, log,
                  failures, calls >>

\* run_race, lines 203-206: the purple LED, then start_time = time.time();
\* an exception goes to run_race's except clause, which calls emergency_stop
RaceLed ==
  /\ pc = "race_led"
  /\ \E o \in DevOutcomes :
       /\ Dev(o, "set_main_led", 0, "purple", 0, "run_race")
       /\ IF o = "ok"
            THEN /\ Goto("loop")
                 /\ start_time' = clock
                 /\ i' = 0
                 /\ estop_ret' = estop_ret
            ELSE /\ EnterEstop("run_race")
                 /\ UNCHANGED << start_time, i >>
  /\ UNCHANGED << envVars, intrVars, obsVars, toy, api, calibrated, total_distance,
                  clock, exit_code, calls, runs >>

\* run_race, lines 209-216, and execute_segment, lines 157-163: the next
\* pair of waypoints, if any, is classified by its distance
Loop ==
  /\ pc = "loop"
  /\ IF i < Len(waypoints) - 1
       THEN IF IsTurnInPlace(waypoints[i + 1], waypoints[i + 2])
              THEN Goto("turn_heading")
              ELSE Goto("mw_heading")
       ELSE Goto("race_stop")
  /\ UNCHANGED << envVars, intrVars, obsVars, toy, api, calibrated, start_time,
                  total_distance, clock, i, estop_ret, exit_code, log,
                  failures, calls, runs >>

\* execute_segment, line 165: set_heading(end_heading) of a turn in place;
\* an exception makes execute_segment return False (lines 188-190) and
\* run_race return False (lines 216-218)
TurnHeading ==
  /\ pc = "turn_heading"
  /\ \E o \in DevOutcomes :
       /\ Dev(o, "set_heading", waypoints[i + 2][3], "", i + 1, "execute_segment")
       /\ IF o = "ok" THEN Goto("turn_sleep") ELSE Return("run_race", FALSE)
  /\ UNCHANGED << envVars, intrVars, obsVars, toy, api, calibrated, start_time,
                  total_distance, clock, i, estop_ret, exit_code, calls, runs >>

\* execute_segment, lines 166-167: time.sleep(0.5), return True
TurnSleep ==
  /\ pc = "turn_sleep"
  /\ clock' = clock + HoldDuration(waypoints[i + 1], waypoints[i + 2])
  /\ Goto("seg_pause")
  /\ UNCHANGED << envVars, intrVars, obsVars, toy, api, calibrated, start_time,
                  total_distance, i, estop_ret, exit_code, log, failures,
                  calls, runs >>

\* move_to_waypoint, line 144: set_heading(heading); an exception makes
\* move_to_waypoint return False (lines 149-151), which execute_segment,
\* line 180, does not look at
MwHeading ==
  /\ pc = "mw_heading"
  /\ \E o \in DevOutcomes :
       /\ Dev(o, "set_heading", waypoints[i + 2][3], "", i + 1, "move_to_waypoint")
       /\ IF o = "ok" THEN Goto("mw_sleep") ELSE Goto("hold")
  /\ UNCHANGED << envVars, intrVars, obsVars, toy, api, calibrated, start_time,
                  total_distance, clock, i, estop_ret, exit_code, calls, runs >>

\* move_to_waypoint, line 145: time.sleep(0.1)
MwSleep ==
  /\ pc = "mw_sleep"
  /\ clock' = clock + Secs(1, 10)
  /\ Goto("mw_speed")
  /\ UNCHANGED << envVars, intrVars, obsVars, toy, api, calibrated, start_time,
                  total_distance, i, estop_ret, exit_code, log, failures,
                  calls, runs >>

\* move_to_waypoint, lines 146-151: set_speed(speed), return True or False
MwSpeed ==
  /\ pc = "mw_speed"
  /\ \E o \in DevOutcomes :
       /\ Dev(o, "set_speed", SegmentSpeed(waypoints[i + 1], waypoints[i + 2]),
              "", i + 1, "move_to_waypoint")
       /\ Goto("hold")
  /\ UNCHANGED << envVars, intrVars, obsVars, toy, api, calibrated, start_time,
                  total_distance, clock, i, estop_ret, exit_code, calls, runs >>

\* execute_segment, lines 183-186: time.sleep(duration) ends, then
\* total_distance += distance, return True
Hold ==
  /\ pc = "hold"
  /\ clock' = clock + HoldDuration(waypoints[i + 1], waypoints[i + 2])
  /\ total_distance' =
       total_distance + calculate_distance(waypoints[i + 1], waypoints[i + 2])
  /\ Goto("seg_pause")
  /\ UNCHANGED << envVars, intrVars, obsVars, toy, api, calibrated, start_time, i,
                  estop_ret, exit_code, log, failures, calls, runs >>

\* Mutant of SegPause: the loop index advances by two.
SegPause_SkipsOne ==
  /\ pc = "seg_pause"
  /\ clock' = clock + Secs(2, 10)
  /\ i' = i + 2
  /\ Goto("loop")
  /\ UNCHANGED << envVars, intrVars, obsVars, toy, api, calibrated, start_time,
                  total_distance, estop_ret, exit_code, log, failures, calls,
                  runs >>

\* run_race, lines 220-224: time.sleep(0.2), then the next i
SegPause ==
  /\ pc = "seg_pause"
  /\ clock' = clock + Secs(2, 10)
  /\ i' = i + 1
  /\ Goto("loop")
  /\ UNCHANGED << envVars, intrVars, obsVars, toy, api, calibrated, start_time,
                  total_distance, estop_ret, exit_code, log, failures, calls,
                  runs >>

\* A run_race that goes on to the results whether or not its set_speed(0)
\* raised.
RaceStop_IgnoresFailure ==
  /\ pc = "race_stop"
  /\ \E o \in DevOutcomes :
       /\ Dev(o, "set_speed", 0, "", 0, "run_race")
       /\ Goto("race_result") /\ estop_ret' = estop_ret
  /\ UNCHANGED << envVars, intrVars, obsVars, toy, api, calibrated, start_time,
                  total_distance, clock, i, exit_code, calls, runs >>

\* run_race, line 227: set_speed(0) at the finish line
RaceStop ==
  /\ pc = "race_stop"
  /\ \E o \in DevOutcomes :
       /\ Dev(o, "set_speed", 0, "", 0, "run_race")
       /\ IF o = "ok"
            THEN Goto("race_result") /\ estop_ret' = estop_ret
            ELSE EnterEstop("run_race")
  /\ UNCHANGED << envVars, intrVars, obsVars, toy, api, calibrated, start_time,
                  total_distance, clock, i, exit_code, calls, runs >>

\* run_race, lines 230-231: race_time = time.time() - start_time and
\* avg_speed = total_distance / race_time if race_time > 0 else 0
RunResult ==
  LET race_time == clock - start_time
  IN  [run |-> inrun, race_time |-> race_time, total_distance |-> total_distance,
       avg_num |-> IF race_time > 0 THEN total_distance * TicksPerSecond ELSE 0,
       avg_den |-> IF race_time > 0 THEN race_time ELSE 1]

\* run_race, lines 230-241: the results, the gold LED, return True
RaceResult ==
  /\ pc = "race_result"
  /\ results' = Append(results, RunResult)
  /\ UNCHANGED confirm_at
  /\ \E o \in DevOutcomes :
       /\ Dev(o, "set_main_led", 0, "gold", 0, "run_race")
       /\ IF o = "ok"
            THEN Return("run_race", TRUE) /\ estop_ret' = estop_ret
            ELSE EnterEstop("run_race")
  /\ UNCHANGED << envVars, intrVars, toy, api, calibrated, start_time,
                  total_distance, clock, i, exit_code, calls, runs >>

\* ------------------------------------------------ emergency stop, cleanup
\* emergency_stop returns: to run_race, which returns False (line 246), or
\* to main's except clause, which returns False (lines 316, 321) through
\* the finally clause
EstopReturn ==
  IF estop_ret = "run_race"
    THEN Return("run_race", FALSE)
    ELSE /\ pc' = "cleanup_stop"
         /\ main_ret' = "false"
         /\ UNCHANGED << rets, inrun >>

\* Mutant of EmergencyStop: the red LED is set before the robot is stopped.
EmergencyStop_LedFirst ==
  /\ pc = "estop_stop"
  /\ \E o \in DevOutcomes :
       /\ Dev(o, "set_main_led", 0, "red", 0, "emergency_stop")
       /\ IF o = "ok" THEN Goto("estop_led") ELSE EstopReturn
  /\ UNCHANGED << envVars, intrVars, obsVars, toy, api, calibrated, start_time,
                  total_distance, clock, i, estop_ret, exit_code, calls, runs >>

\* emergency_stop, lines 251-252: if self.api: set_speed(0)
EmergencyStop ==
  /\ pc = "estop_stop"
  /\ \E o \in DevOutcomes :
       /\ Dev(o, "set_speed", 0, "", 0, "emergency_stop")
       /\ IF o = "ok" THEN Goto("estop_led") ELSE EstopReturn
  /\ UNCHANGED << envVars, intrVars, obsVars, toy, api, calibrated, start_time,
                  total_distance, clock, i, estop_ret, exit_code, calls, runs >>

\* emergency_stop, lines 253-256: the red LED
EstopLed ==
  /\ pc = "estop_led"
  /\ \E o \in DevOutcomes :
       /\ Dev(o, "set_main_led", 0, "red", 0, "emergency_stop")
       /\ EstopReturn
  /\ UNCHANGED << envVars, intrVars, obsVars, toy, api, calibrated, start_time,
                  total_distance, clock, i, estop_ret, exit_code, calls, runs >>

\* cleanup, lines 261-262, called by main's finally clause:
\* if self.api: set_speed(0); an exception ends cleanup (lines 265-266)
Cleanup ==
  /\ pc = "cleanup_stop"
  /\ \E o \in DevOutcomes :
       /\ Dev(o, "set_speed", 0, "", 0, "cleanup")
       /\ IF o = "ok" THEN Goto("cleanup_led") ELSE Goto("main_done")
  /\ UNCHANGED << envVars, intrVars, obsVars, toy, api, calibrated, start_time,
                  total_distance, clock, i, estop_ret, exit_code, calls, runs >>

\* cleanup, lines 263-266: the LED off; main has returned
CleanupLed ==
  /\ pc = "cleanup_led"
  /\ \E o \in DevOutcomes :
       /\ Dev(o, "set_main_led", 0, "off", 0, "cleanup")
       /\ Goto("main_done")
  /\ UNCHANGED << envVars, intrVars, obsVars, toy, api, calibrated, start_time,
                  total_distance, clock, i, estop_ret, exit_code, calls, runs >>

\* ------------------------------------------------------------ interrupts
\* The statements of main's try body (lines 283-311), the methods it calls
\* included.
TryBodyPcs ==
  { "discover", "connect", "connect_reset", "connect_led",
    "cal_led", "cal_stop", "cal_input", "cal_reset", "cal_heading",
    "cal_green", "cal_sleep", "main_input",
    "race_check", "race_led", "loop", "turn_heading", "turn_sleep",
    "mw_heading", "mw_sleep", "mw_speed", "hold", "seg_pause",
    "race_stop", "race_result" }

\* Ctrl-C while control is in main's try body: KeyboardInterrupt passes every
\* "except Exception" clause on its way up and reaches main's
\* "except KeyboardInterrupt" clause (lines 313-316), which calls
\* emergency_stop.
Interrupt ==
  /\ driver = "cli"
  /\ \/ pc \in TryBodyPcs
     \/ pc \in {"estop_stop", "estop_led"} /\ estop_ret = "run_race"
  /\ pc' = "estop_stop"
  /\ estop_ret' = "main_kbd"
  /\ inrun' = 0
  /\ interrupted' = TRUE
  /\ intr_at' = Len(log)
  /\ intr_pc' = pc
  /\ UNCHANGED << envVars, obsVars, toy, api, calibrated, start_time,
                  total_distance, clock, i, main_ret, exit_code, log, rets,
                  failures, calls, runs >>

\* ------------------------------------------------------------ the client
\* Code that holds a SpheroRacer calls calibrate_heading or run_race.
ClientCall ==
  /\ pc = "client_idle"
  /\ calls < MaxCalls
  /\ calls' = calls + 1
  /\ \E m \in {"cal_led", "race_check"} : pc' = m
  /\ UNCHANGED << envVars, intrVars, obsVars, toy, api, calibrated, start_time,
                  total_distance, clock, i, estop_ret, main_ret, exit_code,
                  log, rets, failures, runs, inrun >>

Next ==
  \/ CliStart \/ MainEntry \/ ScriptEnd
  \/ DiscoverToy \/ ConnectToy \/ ConnectReset \/ ConnectLed
  \/ CalLed \/ CalStop \/ CalInput \/ CalReset \/ CalHeading \/ CalGreen
  \/ CalDone \/ MainInput
  \/ RunRaceCheck \/ RaceLed \/ Loop
  \/ TurnHeading \/ TurnSleep \/ MwHeading \/ MwSleep \/ MwSpeed \/ Hold
  \/ SegPause \/ RaceStop \/ RaceResult
  \/ EmergencyStop \/ EstopLed \/ Cleanup \/ CleanupLed
  \/ Interrupt \/ ClientCall

Spec == Init /\ [][Next]_vars

SpecPlan == InitPlan /\ [][Next]_vars

\* ======================================================================
\* Properties
\* ======================================================================
LogIdx == 1..Len(log)
RetIdx == 1..Len(rets)

\* the stop command set_speed(0)
IsStop(c) == c.cmd = "set_speed" /\ c.arg = 0

\* a run_race call that got past the calibration check has returned
IsRaceReturn(r) == r.op = "run_race" /\ r.run > 0

\* the command c of run_race call n belongs to a segment and raised
FailedInSegment(c, n) == c.run = n /\ c.seg > 0 /\ ~c.ok

\* C1: if an actuation command issued for segment k fails, no command of
\* segment k+1 or of a later segment is issued in that run.
C1_AbortsAtFailedSegment ==
  \A a \in LogIdx : \A b \in LogIdx :
    (a < b /\ FailedInSegment(log[a], log[a].run) /\ log[a].run > 0
       /\ log[b].run = log[a].run)
      => log[b].seg <= log[a].seg

\* C2: every run_race call that gets past the calibration check issues
\* set_speed(0) before it returns.
C2_StopBeforeReturn ==
  \A r \in RetIdx :
    IsRaceReturn(rets[r])
      => \E j \in LogIdx : log[j].run = rets[r].run /\ IsStop(log[j])

\* C3: when a command of a segment fails during run_race, set_speed(0) is
\* issued exactly once by run_race (and the emergency_stop it calls) between
\* the failure and the return of run_race.
C3_StopExactlyOnceAfterFailure ==
  \A r \in RetIdx : \A a \in LogIdx :
    (IsRaceReturn(rets[r]) /\ FailedInSegment(log[a], rets[r].run))
      => Cardinality({ j \in LogIdx : /\ j > a
                                      /\ log[j].run = rets[r].run
                                      /\ IsStop(log[j]) }) = 1

\* C4: run_race returns True only if no command issued during the run failed.
C4_SuccessOnlyWithoutFailure ==
  \A r \in RetIdx :
    (IsRaceReturn(rets[r]) /\ rets[r].val)
      => \A j \in LogIdx : log[j].run = rets[r].run => log[j].ok

\* C5: run_race called while calibrated is false returns False in that very
\* step, issues no command and leaves total_distance and start_time alone.
C5_UncalibratedRunRefused ==
  [][ (pc = "race_check" /\ ~calibrated)
        => /\ Len(rets') = Len(rets) + 1
           /\ rets'[Len(rets')].op = "run_race"
           /\ ~rets'[Len(rets')].val
           /\ log' = log
           /\ total_distance' = total_distance
           /\ start_time' = start_time ]_vars

\* run_race has just refused to run on a connected, uncalibrated racer
C5_Witness ==
  /\ api
  /\ ~calibrated
  /\ Len(rets) > 0
  /\ rets[Len(rets)].op = "run_race"
  /\ rets[Len(rets)].run = 0
  /\ ~rets[Len(rets)].val

\* The sum of the distances of the course's segments from segment k on, a
\* turn in place counting 0.
RECURSIVE CourseLengthFrom(_, _)
CourseLengthFrom(w, k) ==
  IF k >= Len(w) THEN 0
  ELSE (IF IsTurnInPlace(w[k], w[k + 1]) THEN 0
        ELSE calculate_distance(w[k], w[k + 1]))
       + CourseLengthFrom(w, k + 1)

\* C6: after every run_race call that executes all segments of the course,
\* total_distance is the sum of the distances of that run's segments.
C6_TotalDistanceIsRunSum ==
  \A r \in RetIdx :
    (IsRaceReturn(rets[r]) /\ rets[r].segs = Len(waypoints) - 1)
      => rets[r].dist = CourseLengthFrom(waypoints, 1)

\* main is calibrating, waiting for the start confirmation or running a
\* segment
C7Phases ==
  { "cal_led", "cal_stop", "cal_input", "cal_reset", "cal_heading",
    "cal_green", "cal_sleep", "main_input",
    "loop", "turn_heading", "turn_sleep", "mw_heading", "mw_sleep",
    "mw_speed", "hold", "seg_pause" }

\* C7: after a user interrupt in one of these phases the next command issued
\* is set_speed(0), no command of a segment (no set_heading, no set_speed
\* other than 0) follows the interrupt, and main returns False.
C7_InterruptStops ==
  (interrupted /\ intr_pc \in C7Phases)
    => /\ pc # "estop_stop" => Len(log) > intr_at
       /\ Len(log) > intr_at => IsStop(log[intr_at + 1])
       /\ \A j \in (intr_at + 1)..Len(log) :
            /\ log[j].seg = 0
            /\ log[j].cmd # "set_heading"
            /\ log[j].cmd = "set_speed" => log[j].arg = 0
       /\ pc \in {"main_done", "exited"} => main_ret = "false"

\* main has returned after an interrupt that arrived during a hold wait
C7_Witness ==
  /\ interrupted
  /\ intr_pc = "hold"
  /\ pc = "main_done"
  /\ Len(log) > intr_at

\* main has returned (the finally clause has run)
MainReturned == driver = "cli" /\ pc \in {"main_done", "exited"}

\* the set_speed(0) and the LED-off command of cleanup
IsCleanupStop(c) == c.src = "cleanup" /\ IsStop(c)
IsCleanupLedOff(c) == c.src = "cleanup" /\ c.cmd = "set_main_led" /\ c.color = "off"

\* C8 as stated: when main returns with a session object, the last two
\* commands issued are cleanup's set_speed(0) and then its LED-off command.
C8_CleanupIssuesStopAndLedOff ==
  (MainReturned /\ api)
    => /\ Len(log) >= 2
       /\ IsCleanupStop(log[Len(log) - 1])
       /\ IsCleanupLedOff(log[Len(log)])

\* C8 as amended: when main returns with a session object, cleanup was the
\* last thing to issue commands: its set_speed(0) and, if that command
\* succeeded, then its LED-off command; main returns a value whether or not
\* a command of cleanup failed.
C8_CleanupAttemptedLast ==
  (MainReturned /\ api)
    => /\ main_ret \in {"true", "false"}
       /\ Len(log) >= 1
       /\ \/ IsCleanupStop(log[Len(log)]) /\ ~log[Len(log)].ok
          \/ /\ Len(log) >= 2
             /\ IsCleanupStop(log[Len(log) - 1])
             /\ log[Len(log) - 1].ok
             /\ IsCleanupLedOff(log[Len(log)])

\* main has returned after a race that failed and a cleanup whose
\* set_speed(0) raised
C8_Witness ==
  /\ MainReturned
  /\ api
  /\ runs = 1
  /\ main_ret = "false"
  /\ IsCleanupStop(log[Len(log)])
  /\ ~log[Len(log)].ok

\* discover_toy or connect_toy has returned False to main
ConnectFailedInMain ==
  /\ driver # "client"
  /\ \E r \in RetIdx : rets[r].op \in {"discover_toy", "connect_toy"} /\ ~rets[r].val

\* C9: if discovery or connection fails in main, calibrate_heading and
\* run_race are never entered, no set_heading and no set_speed with a
\* non-zero speed is issued, and total_distance, calibrated and start_time
\* keep their initial values.
C9_NoMotionAfterFailedConnect ==
  ConnectFailedInMain
    => /\ pc \in {"cleanup_stop", "cleanup_led", "main_done", "exited"}
       /\ \A r \in RetIdx : rets[r].op \notin {"calibrate_heading", "run_race"}
       /\ \A j \in LogIdx :
            /\ log[j].cmd # "set_heading"
            /\ log[j].cmd = "set_speed" => log[j].arg = 0
            /\ log[j].src \in {"connect_toy", "cleanup"}
       /\ total_distance = 0
       /\ ~calibrated
       /\ start_time = NoTime

\* main has returned after connect_toy opened the session and then failed
C9_Witness ==
  /\ ConnectFailedInMain
  /\ api
  /\ pc = "main_done"
  /\ Len(log) >= 2

\* C10: with valid arguments the process exits with code 0 exactly when the
\* race ran to full success, and with code 1 otherwise.
C10_ExitCodeTellsOutcome ==
  (driver = "cli" /\ pc = "exited" /\ argc >= MinArgc)
    => /\ exit_code \in {0, 1}
       /\ exit_code = 0 <=> main_ret = "true"

\* ----------------------------------------------------------------------
ResIdx == 1..Len(results)

\* run_race call n started the race: its purple LED command succeeded, so
\* the timer of line 206 was started
RaceStarted(n) ==
  \E j \in LogIdx : /\ log[j].run = n
                    /\ log[j].src = "run_race"
                    /\ log[j].color = "purple"
                    /\ log[j].ok

\* C11: a run result is computed exactly once in every run_race call that
\* started the race, whether it completed all segments or aborted.
C11_ResultOncePerStartedRun ==
  \A r \in RetIdx :
    (IsRaceReturn(rets[r]) /\ RaceStarted(rets[r].run))
      => Cardinality({ k \in ResIdx : results[k].run = rets[r].run }) = 1

\* ----------------------------------------------------------------------
\* The squared distance and the heading change of segment k of the course
SegDist2(k) ==
  (waypoints[k + 1][1] - waypoints[k][1]) * (waypoints[k + 1][1] - waypoints[k][1])
    + (waypoints[k + 1][2] - waypoints[k][2]) * (waypoints[k + 1][2] - waypoints[k][2])
SegTurn(k) ==
  IF waypoints[k + 1][3] >= waypoints[k][3]
    THEN waypoints[k + 1][3] - waypoints[k][3]
    ELSE waypoints[k][3] - waypoints[k + 1][3]

\* C12: a segment is executed as a turn in place (set_heading by
\* execute_segment, no set_speed) exactly when its distance is below 1 cm;
\* otherwise move_to_waypoint commands speed 40 when the heading changes by
\* more than 45 degrees and speed 80 when it changes by 45 degrees or less.
C12_SegmentClassification ==
  /\ pc \in {"turn_heading", "turn_sleep"} => SegDist2(i + 1) < 1
  /\ pc \in {"mw_heading", "mw_sleep", "mw_speed", "hold"} => SegDist2(i + 1) >= 1
  /\ \A j \in LogIdx :
       log[j].seg > 0 =>
         /\ log[j].src = "execute_segment" <=> SegDist2(log[j].seg) < 1
         /\ log[j].src = "move_to_waypoint" <=> SegDist2(log[j].seg) >= 1
         /\ log[j].cmd = "set_speed" =>
              log[j].arg = (IF SegTurn(log[j].seg) > 45 THEN 40 ELSE 80)

\* a segment of exactly 1 cm whose heading changes by exactly 45 degrees is
\* being held after set_speed(80)
C12_Witness ==
  /\ pc = "hold"
  /\ SegDist2(i + 1) = 1
  /\ SegTurn(i + 1) = 45
  /\ log[Len(log)].cmd = "set_speed"
  /\ log[Len(log)].arg = 80

\* ----------------------------------------------------------------------
\* the segment being executed is from a to b
SegmentIs(a, b) == waypoints[i + 1] = a /\ waypoints[i + 2] = b

\* t ticks are d / q seconds, d the distance of segment k in cm
IsDistanceOver(t, k, q) ==
  \E d \in 0..(COURSE_WIDTH + COURSE_HEIGHT) :
    /\ d * d = SegDist2(k)
    /\ t * q = d * TicksPerSecond

\* C13: the wait of a turn in place takes 0.5 s, the wait of a turn segment
\* distance / (40 * 0.6) = distance / 24 s, the wait of a straight segment
\* distance / (80 * 0.8) = distance / 64 s; (0,0,0)->(100,0,0) waits 100/64 s
\* and (50,0,180)->(150,0,270) waits 100/24 s.
C13_HoldDurations ==
  [][ /\ (pc = "turn_sleep" /\ pc' = "seg_pause")
           => 2 * (clock' - clock) = TicksPerSecond
      /\ (pc = "hold" /\ pc' = "seg_pause")
           => /\ SegTurn(i + 1) > 45 => IsDistanceOver(clock' - clock, i + 1, 24)
              /\ SegTurn(i + 1) <= 45 => IsDistanceOver(clock' - clock, i + 1, 64)
              /\ SegmentIs(<<0, 0, 0>>, <<100, 0, 0>>)
                   => 64 * (clock' - clock) = 100 * TicksPerSecond
              /\ SegmentIs(<<50, 0, 180>>, <<150, 0, 270>>)
                   => 24 * (clock' - clock) = 100 * TicksPerSecond ]_vars

\* the wait of the segment (50,0,180)->(150,0,270), driven at speed 40, has
\* ended
C13_Witness ==
  /\ pc = "seg_pause"
  /\ SegmentIs(<<50, 0, 180>>, <<150, 0, 270>>)
  /\ total_distance = 100
  /\ log[Len(log)].cmd = "set_speed"
  /\ log[Len(log)].arg = 40
  /\ log[Len(log)].ok

\* ----------------------------------------------------------------------
\* the commands issued so far for the segment being executed, in order
SegCmds ==
  LET cur(c) == c.run = inrun /\ c.seg = i + 1
      own == SelectSeq(log, cur)
  IN  [k \in 1..Len(own) |-> <<own[k].cmd, own[k].arg>>]

\* the commands the protocol gives the segment being executed
ProtocolCmds ==
  IF SegDist2(i + 1) < 1
    THEN << <<"set_heading", waypoints[i + 2][3]>> >>
    ELSE << <<"set_heading", waypoints[i + 2][3]>>,
            <<"set_speed", IF SegTurn(i + 1) > 45 THEN 40 ELSE 80>> >>

\* C14: when the wait of a segment begins, exactly one set_heading with the
\* end waypoint's heading and then, iff the segment is not a turn in place,
\* exactly one set_speed with the segment's speed have been issued for it;
\* no command is issued during the wait; total_distance changes only in the
\* step that ends the wait of a moving segment.
C14_SegmentProtocol ==
  [][ /\ pc' \in {"hold", "turn_sleep"} => SegCmds' = ProtocolCmds'
      /\ pc \in {"hold", "turn_sleep"} => log' = log
      /\ total_distance' # total_distance => (pc = "hold" /\ pc' = "seg_pause")
    ]_vars

\* ----------------------------------------------------------------------
\* the set_heading commands of run_race call n, in order
RunHeadings(n) ==
  LET mine(c) == c.run = n /\ c.cmd = "set_heading"
  IN  SelectSeq(log, mine)

\* the headings of waypoints 2..n
CourseHeadings == [k \in 1..(Len(waypoints) - 1) |-> waypoints[k + 1][3]]

\* the wait of segment k in ticks: 0.5 s, distance / 24 s or distance / 64 s
WaitOf(k) ==
  IF SegDist2(k) < 1 THEN TicksPerSecond \div 2
  ELSE LET d == CHOOSE d \in 0..(COURSE_WIDTH + COURSE_HEIGHT) : d * d = SegDist2(k)
       IN  (d * TicksPerSecond) \div (IF SegTurn(k) > 45 THEN 24 ELSE 64)

\* C15: in the run in progress the latest set_heading, the k-th of the
\* run, belongs to segment k and carries the heading of waypoint k+1, and it
\* comes no sooner than the wait of segment k-1 after the set_heading of
\* segment k-1 (so, state after state, the headings are issued in waypoint
\* order, none twice and none skipped); a run that completes has issued
\* exactly the headings of waypoints 2..n.
C15_SegmentsInOrder ==
  /\ inrun > 0 =>
       LET h == RunHeadings(inrun)
           k == Len(h)
       IN  /\ k <= Len(CourseHeadings)
           /\ k > 0 => /\ h[k].seg = k
                       /\ h[k].arg = CourseHeadings[k]
                       /\ k \in {i, i + 1}
           /\ k > 1 => /\ h[k - 1].seg = k - 1
                       /\ h[k].at - h[k - 1].at >= WaitOf(k - 1)
  /\ \A r \in RetIdx :
       (IsRaceReturn(rets[r]) /\ rets[r].segs = Len(waypoints) - 1)
         => LET h == RunHeadings(rets[r].run)
            IN  [k \in 1..Len(h) |-> h[k].arg] = CourseHeadings

\* a run of the built-in course has completed after one of its commands
\* failed
C15_Witness ==
  /\ driver = "cli"
  /\ Len(rets) > 0
  /\ IsRaceReturn(rets[Len(rets)])
  /\ rets[Len(rets)].segs = Len(waypoints) - 1
  /\ Len(RunHeadings(1)) = 17
  /\ failures > 0

\* The set_speed commands the device has accepted so far, oldest first.
SpeedsAccepted ==
  LET accepted(c) == c.cmd = "set_speed" /\ c.ok
  IN  SelectSeq(log, accepted)

\* C16: throughout the wait of a turn-in-place segment the speed last
\* commanded to the device is 0, also when the segment before it was driven
\* at STRAIGHT_SPEED or TURN_SPEED.
C16_TurnInPlaceHoldsAtZero ==
  (pc = "turn_sleep" /\ inrun > 0)
    => /\ IsTurnInPlace(waypoints[i + 1], waypoints[i + 2])
       /\ Len(SpeedsAccepted) > 0
       /\ SpeedsAccepted[Len(SpeedsAccepted)].arg = 0

\* The commands calibrate_heading has issued since the operator's latest
\* confirmation are exactly reset_aim, set_heading(0) and the green LED, all
\* accepted, and the confirmation came after calibrate_heading's set_speed(0).
CalibrationEstablished ==
  /\ confirm_at >= 2
  /\ Len(log) = confirm_at + 3
  /\ log[confirm_at].cmd = "set_speed" /\ log[confirm_at].src = "calibrate_heading"
  /\ log[confirm_at + 1].cmd = "reset_aim" /\ log[confirm_at + 1].ok
  /\ log[confirm_at + 2].cmd = "set_heading" /\ log[confirm_at + 2].arg = 0
  /\ log[confirm_at + 2].ok
  /\ \A k \in (confirm_at + 1)..Len(log) : log[k].src = "calibrate_heading"

\* C17: calibrated becomes true only in calibrate_heading's last step, after
\* the operator's confirmation and after reset_aim and set_heading(0) have
\* both succeeded since that confirmation; and main is at run_race only with
\* calibrated true.
C17_CalibratedOnlyAfterConfirmedReset ==
  /\ [][ (calibrated' /\ ~calibrated)
           => (pc = "cal_sleep" /\ CalibrationEstablished) ]_vars
  /\ []((driver = "cli" /\ pc \in {"main_input", "race_check"}) => calibrated)

\* main has calibrated the robot and stands at its call of run_race
C17_Witness ==
  /\ driver = "cli"
  /\ pc = "race_check"
  /\ calibrated
  /\ \E r \in RetIdx : rets[r].op = "calibrate_heading" /\ rets[r].val

\* This step is the return of operation op with value val.
Returns(op, val) ==
  /\ Len(rets') = Len(rets) + 1
  /\ rets'[Len(rets')].op = op
  /\ rets'[Len(rets')].val = val

\* calibrate_heading has returned True at least once.
CalibratedOnce == \E r \in RetIdx : rets[r].op = "calibrate_heading" /\ rets[r].val

\* C18: no step takes calibrated from true to false; the step on which
\* calibrate_heading returns False, and every step of calibrate_heading
\* before its last, leaves calibrated as it was; and once calibrate_heading
\* has returned True, run_race is never refused, whatever a later
\* calibrate_heading did.
C18_FailedCalibrationKeepsFlag ==
  /\ [][calibrated => calibrated']_vars
  /\ [][Returns("calibrate_heading", FALSE) => calibrated' = calibrated]_vars
  /\ [][(pc \in {"cal_led", "cal_stop", "cal_input", "cal_reset", "cal_heading",
                 "cal_green"}) => calibrated' = calibrated]_vars
  /\ [][(CalibratedOnce /\ pc = "race_check") => ~Returns("run_race", FALSE)]_vars

\* after a calibration that succeeded, a second one got reset_aim accepted
\* and set_heading(0) refused and returned False, and the run_race called
\* next has passed its check
C18_Witness ==
  /\ pc = "race_led"
  /\ calibrated
  /\ Len(rets) >= 2
  /\ rets[Len(rets)].op = "calibrate_heading" /\ ~rets[Len(rets)].val
  /\ rets[Len(rets) - 1].op = "calibrate_heading" /\ rets[Len(rets) - 1].val
  /\ Len(log) >= 2
  /\ log[Len(log)].cmd = "set_heading" /\ ~log[Len(log)].ok
  /\ log[Len(log)].src = "calibrate_heading"
  /\ log[Len(log) - 1].cmd = "reset_aim" /\ log[Len(log) - 1].ok

\* The set_speed commands of run n, oldest first.
RunSpeeds(n) ==
  LET mine(c) == c.run = n /\ c.cmd = "set_speed"
  IN  SelectSeq(log, mine)

\* Command c is run_race's own stop or victory LED of run n, and it raised.
FailedFinish(c, n) ==
  /\ c.run = n /\ c.src = "run_race" /\ ~c.ok
  /\ \/ c.cmd = "set_speed"
     \/ c.cmd = "set_main_led" /\ c.color = "gold"

\* C19: a run_race that returned True went through all len(waypoints)-1
\* segments and the last set_speed of its run is run_race's set_speed(0),
\* accepted; a run whose final stop or victory LED raised returns False.
C19_SuccessMeansStopped ==
  \A r \in RetIdx :
    IsRaceReturn(rets[r]) =>
      /\ rets[r].val =>
           LET sp == RunSpeeds(rets[r].run)
           IN  /\ rets[r].segs = Len(waypoints) - 1
               /\ Len(RunHeadings(rets[r].run)) = Len(waypoints) - 1
               /\ Len(sp) > 0
               /\ sp[Len(sp)].arg = 0
               /\ sp[Len(sp)].ok
               /\ sp[Len(sp)].src = "run_race"
      /\ (\E c \in LogIdx : FailedFinish(log[c], rets[r].run)) => ~rets[r].val

\* one run went through all its segments, had its final stop refused and
\* returned False; another returned True
C19_Witness ==
  \E r1, r2 \in RetIdx :
    /\ IsRaceReturn(rets[r1]) /\ ~rets[r1].val
    /\ rets[r1].segs = Len(waypoints) - 1
    /\ \E c \in LogIdx : FailedFinish(log[c], rets[r1].run) /\ log[c].cmd = "set_speed"
    /\ IsRaceReturn(rets[r2]) /\ rets[r2].val

\* The built-in course as execute_segment classifies it: 18 waypoints inside
\* the course rectangle; the odd segments have equal start and end heading
\* and a positive distance, the even ones have distance 0; no segment is a
\* turn segment.
BuiltinCourseShape ==
  LET w == BuiltinWaypoints
  IN  /\ Len(w) = 18
      /\ \A k \in 1..Len(w) : /\ w[k][1] \in 0..COURSE_WIDTH
                              /\ w[k][2] \in 0..COURSE_HEIGHT
      /\ \A k \in 1..(Len(w) - 1) :
           IF k % 2 = 1
             THEN /\ ~IsTurnInPlace(w[k], w[k + 1])
                  /\ calculate_distance(w[k], w[k + 1]) > 0
                  /\ w[k][3] = w[k + 1][3]
             ELSE /\ IsTurnInPlace(w[k], w[k + 1])
                  /\ calculate_distance(w[k], w[k + 1]) = 0

\* C20: on the built-in course the segments alternate straight and turn in
\* place, beginning and ending with a straight one, every waypoint lies in
\* 0..500 x 0..300, the speed commanded in a segment is always
\* STRAIGHT_SPEED and never TURN_SPEED, the straight segments are the odd
\* ones and the turns in place the even ones, and the first run that goes
\* through all 17 segments ends with total_distance = 1450.
C20_BuiltinCourse ==
  waypoints = BuiltinWaypoints =>
    /\ BuiltinCourseShape
    /\ \A c \in LogIdx :
         /\ log[c].cmd = "set_speed" => log[c].arg # TURN_SPEED
         /\ (log[c].cmd = "set_speed" /\ log[c].seg > 0)
              => (log[c].arg = STRAIGHT_SPEED /\ log[c].seg % 2 = 1)
         /\ log[c].src = "move_to_waypoint" => log[c].seg % 2 = 1
         /\ log[c].src = "execute_segment" => log[c].seg % 2 = 0
    /\ \A r \in RetIdx :
         (IsRaceReturn(rets[r]) /\ rets[r].run = 1 /\ rets[r].segs = 17)
           => rets[r].dist = 1450

\* the script's run of the built-in course has returned True with every
\* command accepted
C20_Witness ==
  /\ driver = "cli"
  /\ waypoints = BuiltinWaypoints
  /\ failures = 0
  /\ Len(rets) > 0
  /\ IsRaceReturn(rets[Len(rets)])
  /\ rets[Len(rets)].val
  /\ rets[Len(rets)].dist = 1450
  /\ \E c \in LogIdx : log[c].cmd = "set_speed" /\ log[c].arg = STRAIGHT_SPEED

====
